---- MODULE Spec2Model ----
(***************************************************************************)
(* Random Video Player: the folder scan and its media-info cache           *)
(* (Random_Video_Player.py, class VideoScanner).                           *)
(*                                                                         *)
(* A scan is a QThread: __init__ loads the persisted cache on the caller's *)
(* thread, run() walks the folder on its own thread, probing each video    *)
(* file that the cache cannot answer for, then writes the cache back and   *)
(* emits the list of the files that pass the filters.                      *)
(*                                                                         *)
(* The folder is modelled as it is between two listings of os.walk: files  *)
(* change (Touch) only while no scan is running. A change moves the file's *)
(* modification time forward, or leaves a name whose mtime cannot be read. *)
(*                                                                         *)
(* Spec drives one scanner directly, under every request. RepeatSpec       *)
(* repeats the request of a completed scan. PlayerSpec is the window       *)
(* (class VideoPlayer) whose handlers start scans at any time, beside the  *)
(* threads already running. ReloadSpec is the window used with one scan at *)
(* a time.                                                                 *)
(***************************************************************************)
EXTENDS Integers, Sequences, FiniteSets, TLC

VARIABLES
    fs,        \* the files on disk: path -> [readable, mtime, media]
    store,     \* the cache file media_info_cache.json: a document
    scanner,   \* the VideoScanner thread object (or the idle placeholder)
    prev,      \* what the scan before this one emitted and wrote
    orphans,   \* VideoScanner threads that self.scanner no longer names
    player     \* the VideoPlayer window and its ControlsOverlay

vars == <<fs, store, scanner, prev, orphans, player>>

(***************************************************************************)
(* Bounds and value domains                                                *)
(***************************************************************************)
\* modification times are 1..MaxMtime
MaxMtime == 2

\* what the decoders find in a file: ffprobe's duration (or no duration at
\* all: empty output, ffprobe missing), OpenCV's frame width and height
\* (0 and 0 when the capture cannot be opened)
MediaKinds ==
    { [ffprobe |-> "ok",   duration |-> 10, w |-> 1, h |-> 2],
      [ffprobe |-> "ok",   duration |-> 40, w |-> 2, h |-> 1],
      [ffprobe |-> "fail", duration |-> 0,  w |-> 0, h |-> 0] }

\* the values of the orientation dropdown and of the max-length control
Orientations == {"Vertical", "Horizontal", "Both"}
\* max length: 0 (no limit), the limit of one +10 step, which is a duration
\* that occurs, and the first limit of the +10 steps above the too-long value
MaxLengths == {0, 10, 1000000}

(***************************************************************************)
(* Paths and the directory tree                                            *)
(***************************************************************************)
\* the folder as the caller hands it over: path segments, here with a
\* redundant one that os.walk carries into every root
Folder == <<"D:", "Videos", ".">>

\* os.walk(folder): (root, file) pairs in walk order; a file name is its
\* stem and its extension as spelled on disk
WalkList ==
    << [root |-> Folder,                 file |-> <<"a", ".mp4">>],
       [root |-> Folder,                 file |-> <<"notes", ".txt">>],
       [root |-> Folder \o <<"sub">>,   file |-> <<"b", ".MKV">>] >>

\* a second folder beside the first, whose name begins with the first one's
Sibling == <<"D:", "Videos2">>

SiblingWalk == << [root |-> Sibling, file |-> <<"x", ".mp4">>] >>

\* folders a scan finds no video in: one with no file at all, one with a
\* file of another extension, and one that is gone when the thread walks it
\* (os.walk drops the error of the listing and yields nothing)
Empty == <<"D:", "Empty">>

Docs == <<"D:", "Docs">>

Missing == <<"D:", "Gone">>

DocsWalk == << [root |-> Docs, file |-> <<"notes", ".txt">>] >>

\* str.lower() on the spellings that occur
lower(ext) ==
    CASE ext = ".MKV" -> ".mkv"
      [] ext = ".MP4" -> ".mp4"
      [] ext = "NoLimit" -> "nolimit"
      [] OTHER -> ext

video_extensions == {".mp4", ".mkv", ".avi", ".mov"}

\* the test of line 71 without lower(): only the lower-case spellings match
is_video_CaseSensitive(file) == file[2] \in video_extensions

\* file.lower().endswith(video_extensions)
is_video(file) == lower(file[2]) \in video_extensions

\* os.path.normpath: drops the "." segments
RECURSIVE normpath(_)
normpath(segs) ==
    IF segs = << >> THEN << >>
    ELSE IF Head(segs) = "." THEN normpath(Tail(segs))
    ELSE <<Head(segs)>> \o normpath(Tail(segs))

\* os.walk roots are the folder as the caller spelled it, joined with the
\* directories below it
WalkUnder(folder, base, list) ==
    [i \in 1..Len(list) |->
        [root |-> folder \o SubSeq(list[i].root, Len(base) + 1, Len(list[i].root)),
         file |-> list[i].file]]

os_walk(folder) ==
    IF folder = Folder THEN WalkList
    ELSE IF folder = Sibling THEN SiblingWalk
    ELSE IF normpath(folder) = normpath(Folder) THEN WalkUnder(folder, Folder, WalkList)
    ELSE IF normpath(folder) = normpath(Sibling)
    THEN WalkUnder(folder, Sibling, SiblingWalk)
    ELSE IF normpath(folder) = Docs THEN WalkUnder(folder, Docs, DocsWalk)
    ELSE << >>

\* normalize_path(os.path.join(root, file)): the cache key
normalize_path(root, file) == [dir |-> normpath(root), name |-> file]

\* the normalized paths of the video files of the tree
VideoPaths ==
    { normalize_path(WalkList[i].root, WalkList[i].file) :
        i \in { j \in 1..Len(WalkList) : is_video(WalkList[j].file) } }

(***************************************************************************)
(* The probes                                                              *)
(***************************************************************************)
TooLong == 999999

\* get_video_length without its try/except: the exception leaves the function
get_video_length_Uncaught(media) ==
    IF media.ffprobe = "ok"
    THEN [raised |-> FALSE, value |-> media.duration]
    ELSE [raised |-> TRUE, value |-> TooLong]

\* get_video_length: ffprobe's duration; every exception is caught and
\* answered with the too-long value. raised tells whether an exception
\* leaves the function.
get_video_length(media) ==
    IF media.ffprobe = "ok"
    THEN [raised |-> FALSE, value |-> media.duration]
    ELSE [raised |-> FALSE, value |-> TooLong]

\* line 136 with >= for >: a square frame is Horizontal
detect_orientation_GreaterEqual(media) ==
    IF media.w >= media.h THEN "Horizontal" ELSE "Vertical"

\* detect_orientation: compares OpenCV's frame width and height
detect_orientation(media) ==
    IF media.w > media.h THEN "Horizontal"
    ELSE IF media.h >= media.w THEN "Vertical"
    ELSE "Both"

(***************************************************************************)
(* The cache file                                                          *)
(***************************************************************************)
EmptyCache == [p \in {} |-> 0]

NoFile == [exists |-> FALSE, valid |-> FALSE, obj |-> EmptyCache]
\* a file that json.load rejects: empty, truncated, not JSON
BadFile == [exists |-> TRUE, valid |-> FALSE, obj |-> EmptyCache]

\* json.dump(obj, f) into a freshly truncated file, completed
json_dump(obj) == [exists |-> TRUE, valid |-> TRUE, obj |-> obj]

\* how open(cache_path, "w") + json.dump can end
WriteOutcomes == {"ok", "open_failed", "dump_failed"}

\* the write of lines 106-110 leaving an empty mapping in the file
write_file_Empty(old, obj, outcome) ==
    CASE outcome = "ok"          -> json_dump(EmptyCache)
      [] outcome = "open_failed" -> old
      [] outcome = "dump_failed" -> BadFile

\* lines 106-110: the file after open(cache_path, "w") and json.dump
write_file(old, obj, outcome) ==
    CASE outcome = "ok"          -> json_dump(obj)
      [] outcome = "open_failed" -> old
      [] outcome = "dump_failed" -> BadFile

\* dict assignment: cache[key] = info
\* line 92 storing the entry in a mapping of its own
Upsert_Alone(cache, key, info) == [p \in {key} |-> info]

Upsert(cache, key, info) ==
    [p \in DOMAIN cache \cup {key} |-> IF p = key THEN info ELSE cache[p]]

(***************************************************************************)
(* VideoScanner                                                            *)
(***************************************************************************)
IdleScanner ==
    [pc |-> "idle", folder |-> << >>, orientation |-> "Both", max_length |-> 0,
     force_reload |-> FALSE, media_info_cache |-> EmptyCache,
     loaded |-> EmptyCache, total_videos |-> 0, scanned_count |-> 0, pos |-> 0,
     videos |-> << >>, progress |-> << >>, scanned |-> << >>,
     len_calls |-> << >>, ori_calls |-> << >>, crash |-> "none",
     write |-> "none"]

\* VideoScanner.__init__: stores the request and loads the cache
VideoScannerInit(folder, orientation, max_length, force_reload, doc) ==
    LET base == [IdleScanner EXCEPT !.folder = folder,
                                    !.orientation = orientation,
                                    !.max_length = max_length,
                                    !.force_reload = force_reload]
    IN  IF ~doc.exists
        THEN [base EXCEPT !.pc = "ready"]
        ELSE IF doc.valid
        THEN [base EXCEPT !.pc = "ready",
                          !.media_info_cache = doc.obj,
                          !.loaded = doc.obj]
        ELSE [base EXCEPT !.pc = "init_failed", !.crash = "json.load"]

\* run(), the first walk: total_videos
CountVideos(folder) ==
    Cardinality({ i \in 1..Len(os_walk(folder)) : is_video(os_walk(folder)[i].file) })

run_count(s) ==
    [s EXCEPT !.pc = "walk", !.total_videos = CountVideos(s.folder)]

\* the index in the walk of the next video file after position pos, or 0
NextVideo(folder, pos) ==
    LET later == { i \in (pos + 1)..Len(os_walk(folder)) : is_video(os_walk(folder)[i].file) }
    IN  IF later = {} THEN 0
        ELSE CHOOSE i \in later : \A j \in later : i <= j

\* the loop head with the progress signal emitted before the count is raised
run_visit_EmitBeforeCount(s) ==
    LET n == NextVideo(s.folder, s.pos)
    IN  IF n = 0
        THEN [s EXCEPT !.pc = "save"]
        ELSE [s EXCEPT !.pc = "process",
                       !.pos = n,
                       !.scanned_count = s.scanned_count + 1,
                       !.progress = Append(s.progress,
                                           <<s.scanned_count, s.total_videos>>)]

\* the loop ending in the emit of line 112, the write of lines 106-110 left out
run_visit_SkipSave(s) ==
    LET n == NextVideo(s.folder, s.pos)
    IN  IF n = 0
        THEN [s EXCEPT !.pc = "emit"]
        ELSE [s EXCEPT !.pc = "process",
                       !.pos = n,
                       !.scanned_count = s.scanned_count + 1,
                       !.progress = Append(s.progress,
                                           <<s.scanned_count + 1, s.total_videos>>)]

\* the loop head, lines 74-79: the next video file is counted and the
\* progress signal emitted; with no file left the loop ends
run_visit(s) ==
    LET n == NextVideo(s.folder, s.pos)
    IN  IF n = 0
        THEN [s EXCEPT !.pc = "save"]
        ELSE [s EXCEPT !.pc = "process",
                       !.pos = n,
                       !.scanned_count = s.scanned_count + 1,
                       !.progress = Append(s.progress,
                                           <<s.scanned_count + 1, s.total_videos>>)]

\* the path the loop is at
Full(s) == normalize_path(os_walk(s.folder)[s.pos].root, os_walk(s.folder)[s.pos].file)

\* line 88 with the mtime comparison turned around (== for !=)
NeedsProbe_EqualMtime(s, full, mtime) ==
    \/ s.force_reload
    \/ full \notin DOMAIN s.media_info_cache
    \/ "mtime" \notin DOMAIN s.media_info_cache[full]
    \/ s.media_info_cache[full]["mtime"] = mtime

\* line 88 without the mtime comparison
NeedsProbe_NoMtime(s, full, mtime) ==
    \/ s.force_reload
    \/ full \notin DOMAIN s.media_info_cache

\* line 88 without the force_reload flag
NeedsProbe_NoForce(s, full, mtime) ==
    \/ full \notin DOMAIN s.media_info_cache
    \/ "mtime" \notin DOMAIN s.media_info_cache[full]
    \/ s.media_info_cache[full]["mtime"] # mtime

\* line 88: the cache cannot answer for the file
NeedsProbe(s, full, mtime) ==
    \/ s.force_reload
    \/ full \notin DOMAIN s.media_info_cache
    \/ "mtime" \notin DOMAIN s.media_info_cache[full]
    \/ s.media_info_cache[full]["mtime"] # mtime

\* lines 94-104 with the orientation test comparing the wrong way round
filter_decision_SameOrientationSkipped(s, info) ==
    IF s.orientation # "Both" /\ "orientation" \notin DOMAIN info THEN "KeyError"
    ELSE IF s.orientation # "Both" /\ info["orientation"] = s.orientation THEN "skip"
    ELSE IF s.max_length = 0 THEN "keep"
    ELSE IF "duration" \notin DOMAIN info THEN "KeyError"
    ELSE IF info["duration"] > s.max_length THEN "skip"
    ELSE "keep"

\* lines 94-104 with >= for > in the length test
filter_decision_GreaterEqual(s, info) ==
    IF s.orientation # "Both" /\ "orientation" \notin DOMAIN info THEN "KeyError"
    ELSE IF s.orientation # "Both" /\ info["orientation"] # s.orientation THEN "skip"
    ELSE IF s.max_length = 0 THEN "keep"
    ELSE IF "duration" \notin DOMAIN info THEN "KeyError"
    ELSE IF info["duration"] >= s.max_length THEN "skip"
    ELSE "keep"

\* lines 94-104 without the exemption of max_length = 0
filter_decision_ZeroIsLimit(s, info) ==
    IF s.orientation # "Both" /\ "orientation" \notin DOMAIN info THEN "KeyError"
    ELSE IF s.orientation # "Both" /\ info["orientation"] # s.orientation THEN "skip"
    ELSE IF "duration" \notin DOMAIN info THEN "KeyError"
    ELSE IF info["duration"] > s.max_length THEN "skip"
    ELSE "keep"

\* lines 94-104 on the entry info: "keep", "skip", or the KeyError of an
\* entry that lacks the field read
filter_decision(s, info) ==
    IF s.orientation # "Both" /\ "orientation" \notin DOMAIN info THEN "KeyError"
    ELSE IF s.orientation # "Both" /\ info["orientation"] # s.orientation THEN "skip"
    ELSE IF s.max_length = 0 THEN "keep"
    ELSE IF "duration" \notin DOMAIN info THEN "KeyError"
    ELSE IF info["duration"] > s.max_length THEN "skip"
    ELSE "keep"

\* line 104 putting the path in front of the list
append_video_InFront(videos, full) == <<full>> \o videos

\* line 104: videos.append(full)
append_video(videos, full) == Append(videos, full)

\* the loop body, lines 83-104, for the file at s.pos
run_process(s, files) ==
    LET full == Full(s)
        f == files[full]
    IN  IF ~f.readable
        THEN [s EXCEPT !.pc = "crashed", !.crash = "getmtime"]
        ELSE
        LET mtime == f.mtime
            probe == NeedsProbe(s, full, mtime)
            len == get_video_length(f.media)
        IN  IF probe /\ len.raised
            THEN [s EXCEPT !.pc = "crashed", !.crash = "get_video_length",
                           !.len_calls = Append(s.len_calls, full)]
            ELSE
            LET info == IF probe
                        THEN [duration |-> len.value,
                              orientation |-> detect_orientation(f.media),
                              mtime |-> mtime]
                        ELSE s.media_info_cache[full]
                s1 == IF probe
                      THEN [s EXCEPT !.media_info_cache = Upsert(s.media_info_cache, full, info),
                                     !.len_calls = Append(s.len_calls, full),
                                     !.ori_calls = Append(s.ori_calls, full)]
                      ELSE s
                d == filter_decision(s, info)
            IN  CASE d = "KeyError" -> [s1 EXCEPT !.pc = "crashed", !.crash = "KeyError"]
                  [] d = "skip"     -> [s1 EXCEPT !.pc = "walk"]
                  [] d = "keep"     -> [s1 EXCEPT !.pc = "walk",
                                                  !.videos = append_video(s1.videos, full)]

\* lines 106-110 without the try/except: a failed write ends the thread
run_save_Uncaught(s, outcome) ==
    IF outcome = "ok"
    THEN [s EXCEPT !.pc = "emit", !.write = outcome]
    ELSE [s EXCEPT !.pc = "crashed", !.crash = "write", !.write = outcome]

\* lines 106-110: the cache is written, a failure printed and dropped
run_save(s, outcome) == [s EXCEPT !.pc = "emit", !.write = outcome]

\* line 112: scanned.emit(videos)
run_emit(s) == [s EXCEPT !.pc = "done", !.scanned = Append(s.scanned, s.videos)]

(***************************************************************************)
(* The state machine: one scan at a time, the folder changing in between   *)
(***************************************************************************)
\* a name os.walk lists and os.path.getmtime raises OSError for
Unreadable ==
    [readable |-> FALSE, mtime |-> 0,
     media |-> [ffprobe |-> "fail", duration |-> 0, w |-> 0, h |-> 0]]

FileStates ==
    [readable : {TRUE}, mtime : 1..MaxMtime, media : MediaKinds] \cup {Unreadable}

\* an entry written by an earlier version of the program, which cached
\* durations only
LegacyEntry == [duration |-> 10, mtime |-> 1]

LegacyStore ==
    json_dump([p \in {normalize_path(Folder, <<"a", ".mp4">>)} |-> LegacyEntry])

\* no scan has completed since the folder last changed
NoPrev == [valid |-> FALSE]

\* no window: the scanner is driven directly
NoPlayer == [open |-> FALSE]

\* the file of the second folder, which does not change
SiblingPaths == { normalize_path(SiblingWalk[1].root, SiblingWalk[1].file) }

SiblingFiles ==
    [p \in SiblingPaths |->
        [readable |-> TRUE, mtime |-> 1,
         media |-> [ffprobe |-> "ok", duration |-> 10, w |-> 1, h |-> 2]]]

FolderFiles ==
    [VideoPaths -> { st \in FileStates : st.readable => st.mtime = 1 }]

Init ==
    /\ fs \in { f @@ SiblingFiles : f \in FolderFiles }
    /\ store \in {NoFile, LegacyStore}
    /\ scanner = IdleScanner
    /\ prev = NoPrev
    /\ orphans = << >>
    /\ player = NoPlayer

\* a file is rewritten, or replaced by a name that cannot be stat-ed,
\* between scans
Touch(p, st) ==
    /\ scanner.pc = "idle"
    /\ fs[p].readable
    /\ ~st.readable \/ st.mtime > fs[p].mtime
    /\ fs' = [fs EXCEPT ![p] = st]
    /\ UNCHANGED <<store, scanner>>

\* scanner = VideoScanner(...); scanner.start()
StartScan(orientation, max_length, force_reload) ==
    /\ scanner.pc = "idle"
    /\ scanner' = VideoScannerInit(Folder, orientation, max_length, force_reload, store)
    /\ UNCHANGED <<fs, store>>

RunCount ==
    /\ scanner.pc = "ready"
    /\ scanner' = run_count(scanner)
    /\ UNCHANGED <<fs, store>>

RunVisit ==
    /\ scanner.pc = "walk"
    /\ scanner' = run_visit(scanner)
    /\ UNCHANGED <<fs, store>>

RunProcess ==
    /\ scanner.pc = "process"
    /\ scanner' = run_process(scanner, fs)
    /\ UNCHANGED <<fs, store>>

RunSave(outcome) ==
    /\ scanner.pc = "save"
    /\ store' = write_file(store, scanner.media_info_cache, outcome)
    /\ scanner' = run_save(scanner, outcome)
    /\ UNCHANGED fs

RunEmit ==
    /\ scanner.pc = "emit"
    /\ scanner' = run_emit(scanner)
    /\ UNCHANGED <<fs, store>>

\* the thread has ended (or never started) and its object is dropped
Release ==
    /\ scanner.pc \in {"done", "crashed", "init_failed"}
    /\ scanner' = IdleScanner
    /\ UNCHANGED <<fs, store>>

\* one scanner, driven directly: scans of the folder under every request
Next ==
    \/ \E p \in VideoPaths, st \in FileStates :
          Touch(p, st) /\ UNCHANGED <<prev, orphans, player>>
    \/ \E o \in Orientations, m \in MaxLengths, fr \in BOOLEAN :
          StartScan(o, m, fr) /\ UNCHANGED <<prev, orphans, player>>
    \/ RunCount /\ UNCHANGED <<prev, orphans, player>>
    \/ RunVisit /\ UNCHANGED <<prev, orphans, player>>
    \/ RunProcess /\ UNCHANGED <<prev, orphans, player>>
    \/ \E outcome \in WriteOutcomes :
          RunSave(outcome) /\ UNCHANGED <<prev, orphans, player>>
    \/ RunEmit /\ UNCHANGED <<prev, orphans, player>>
    \/ Release /\ UNCHANGED <<prev, orphans, player>>

Spec == Init /\ [][Next]_vars

\* what a completed scan leaves behind for the scan that follows it
Completed(s, doc) ==
    [valid |-> TRUE, folder |-> s.folder, orientation |-> s.orientation,
     max_length |-> s.max_length, force_reload |-> s.force_reload,
     videos |-> s.scanned[1], write |-> s.write, doc |-> doc]

\* the same scanner, with the request of a completed scan repeated until the
\* folder changes
RepeatNext ==
    \/ \E p \in VideoPaths, st \in FileStates :
          Touch(p, st) /\ prev' = NoPrev /\ UNCHANGED <<orphans, player>>
    \/ \E o \in Orientations, m \in MaxLengths, fr \in BOOLEAN :
          /\ prev.valid =>
                /\ o = prev.orientation
                /\ m = prev.max_length
                /\ fr = prev.force_reload
          /\ StartScan(o, m, fr)
          /\ UNCHANGED <<prev, orphans, player>>
    \/ RunCount /\ UNCHANGED <<prev, orphans, player>>
    \/ RunVisit /\ UNCHANGED <<prev, orphans, player>>
    \/ RunProcess /\ UNCHANGED <<prev, orphans, player>>
    \/ \E outcome \in WriteOutcomes :
          RunSave(outcome) /\ UNCHANGED <<prev, orphans, player>>
    \/ RunEmit /\ UNCHANGED <<prev, orphans, player>>
    \/ /\ Release
       /\ prev' = IF scanner.pc = "done" THEN Completed(scanner, store) ELSE NoPrev
       /\ UNCHANGED <<orphans, player>>

RepeatSpec == Init /\ [][RepeatNext]_vars

(***************************************************************************)
(* The window: VideoPlayer and its ControlsOverlay                         *)
(***************************************************************************)
\* the characters of the path segments that occur
Chars(seg) ==
    CASE seg = "D:"      -> <<"D", ":">>
      [] seg = "Videos"  -> <<"V", "i", "d", "e", "o", "s">>
      [] seg = "Videos2" -> <<"V", "i", "d", "e", "o", "s", "2">>
      [] seg = "Empty"   -> <<"E", "m", "p", "t", "y">>
      [] seg = "Docs"    -> <<"D", "o", "c", "s">>
      [] seg = "Gone"    -> <<"G", "o", "n", "e">>
      [] seg = "sub"     -> <<"s", "u", "b">>
      [] seg = "."       -> <<".">>
      [] seg = "a"       -> <<"a">>
      [] seg = "b"       -> <<"b">>
      [] seg = "x"       -> <<"x">>
      [] seg = "notes"   -> <<"n", "o", "t", "e", "s">>
      [] seg = ".mp4"    -> <<".", "m", "p", "4">>
      [] seg = ".MKV"    -> <<".", "M", "K", "V">>
      [] seg = ".txt"    -> <<".", "t", "x", "t">>

\* a path as the string the program holds: segments joined by the separator
RECURSIVE path_str(_)
path_str(segs) ==
    IF segs = << >> THEN << >>
    ELSE IF Len(segs) = 1 THEN Chars(segs[1])
    ELSE Chars(segs[1]) \o <<"\\">> \o path_str(Tail(segs))

\* os.path.normpath(k) of a cache key, as a string
key_str(k) == path_str(normpath(k.dir)) \o <<"\\">> \o Chars(k.name[1]) \o Chars(k.name[2])

\* str.startswith
startswith(s, prefix) ==
    /\ Len(prefix) <= Len(s)
    /\ SubSeq(s, 1, Len(prefix)) = prefix

\* line 778 removing no key
keys_to_remove_None(cache_data, folder) == {}

\* line 778: the keys whose normalized string starts with the folder's
keys_to_remove(cache_data, folder) ==
    { k \in DOMAIN cache_data : startswith(key_str(k), path_str(folder)) }

\* lines 780-781: del cache_data[k] for the keys to remove
del_keys(cache_data, keys) ==
    [k \in DOMAIN cache_data \ keys |-> cache_data[k]]

\* random.shuffle: every order of the list
Shuffles(videos) ==
    { [i \in 1..Len(videos) |-> videos[f[i]]] : f \in Permutations(1..Len(videos)) }

\* current_video_path before any video was loaded
None == [dir |-> << >>, name |-> << >>]

\* a thread object self.scanner may name when it is replaced
MaxOrphans == 1

\* the thread has been started and has not yet returned from run()
Active(s) == s.pc \in {"ready", "walk", "process", "save", "emit"}

\* the thread has emitted scanned, and on_scan_complete has not yet run for it
Pending(s) == s.pc = "done"

\* what becomes of a running QThread whose only reference is dropped: it
\* runs on, or Qt ends the process
Abandonments == {"runs_on", "abort"}

\* an exception out of a slot or out of run(): PyQt6 ends the process
abort(p) == [p EXCEPT !.aborted = TRUE]

\* a step of run() that takes the filters from the controls as they are
\* shown when it runs, not from the request the thread was built with
thread_step_ReadsControls(s, files, doc, outcome) ==
    LET live == [s EXCEPT !.orientation = player.pending_orientation,
                          !.max_length = player.pending_max_length]
    IN  CASE s.pc = "ready"   -> [s |-> run_count(live), doc |-> doc]
          [] s.pc = "walk"    -> [s |-> run_visit(live), doc |-> doc]
          [] s.pc = "process" -> [s |-> run_process(live, files), doc |-> doc]
          [] s.pc = "save"    -> [s |-> run_save(live, outcome),
                                  doc |-> write_file(doc, s.media_info_cache, outcome)]
          [] s.pc = "emit"    -> [s |-> run_emit(live), doc |-> doc]

\* one step of a thread's run(), against the files and the cache file
thread_step(s, files, doc, outcome) ==
    CASE s.pc = "ready"   -> [s |-> run_count(s), doc |-> doc]
      [] s.pc = "walk"    -> [s |-> run_visit(s), doc |-> doc]
      [] s.pc = "process" -> [s |-> run_process(s, files), doc |-> doc]
      [] s.pc = "save"    -> [s |-> run_save(s, outcome),
                              doc |-> write_file(doc, s.media_info_cache, outcome)]
      [] s.pc = "emit"    -> [s |-> run_emit(s), doc |-> doc]

\* VideoPlayer.__init__ with a last folder that exists: the defaults of the
\* controls, and load_folder(last_folder)
PlayerStartIn(folder, files, docs) ==
    /\ fs \in files
    /\ store \in docs
    /\ prev = NoPrev
    /\ orphans = << >>
    /\ player = [open |-> TRUE, aborted |-> FALSE,
                 current_folder |-> folder, last_folder |-> folder,
                 video_list |-> << >>, current_index |-> -1,
                 current_video_path |-> None,
                 current_orientation |-> "Vertical", current_max_length |-> 0,
                 pending_orientation |-> "Vertical", pending_max_length |-> 0,
                 removed |-> EmptyCache, reload_alone |-> FALSE]
    /\ scanner = VideoScannerInit(folder, "Vertical", 0, FALSE, store)

\* the window opened on the first folder
PlayerStart(files, docs) == PlayerStartIn(Folder, files, docs)

\* scan_folder(folder), called with the player as the handler has left it
\* and the cache file as it is then
scan_folder(folder, p, doc, abandonment) ==
    LET new == VideoScannerInit(folder, p.current_orientation,
                                p.current_max_length, FALSE, doc)
    IN  /\ (Active(scanner) \/ Pending(scanner)) => Len(orphans) < MaxOrphans
        /\ ~Active(scanner) => abandonment = "runs_on"
        /\ IF new.pc = "init_failed" \/ abandonment = "abort"
           THEN /\ player' = abort(p)
                /\ UNCHANGED <<scanner, orphans>>
           ELSE /\ player' = p
                /\ scanner' = new
                /\ orphans' = IF Active(scanner) \/ Pending(scanner)
                              THEN Append(orphans, scanner)
                              ELSE orphans

\* load_folder(folder)
load_folder(folder, p, doc, abandonment) ==
    scan_folder(folder,
                [p EXCEPT !.current_folder = folder, !.video_list = << >>,
                          !.reload_alone = FALSE],
                doc, abandonment)

\* select_folder with a folder chosen in the dialog
SelectFolder(folder, abandonment) ==
    /\ player.open /\ ~player.aborted
    /\ load_folder(folder, [player EXCEPT !.last_folder = folder], store, abandonment)
    /\ UNCHANGED <<fs, store, prev>>

\* reload_current_folder
ReloadCurrentFolder(outcome, abandonment) ==
    /\ player.open /\ ~player.aborted
    /\ IF player.current_folder = << >>
       THEN abandonment = "runs_on" /\ outcome = "ok" /\ UNCHANGED vars
       ELSE IF store.exists /\ ~store.valid
       THEN /\ abandonment = "runs_on" /\ outcome = "ok"
            /\ player' = abort(player)
            /\ UNCHANGED <<fs, store, scanner, prev, orphans>>
       ELSE LET cache_data == IF store.exists THEN store.obj ELSE EmptyCache
                folder == normpath(player.current_folder)
                keys == keys_to_remove(cache_data, folder)
                p == [player EXCEPT !.removed = [k \in keys |-> cache_data[k]],
                                    !.reload_alone = ~Active(scanner) /\ orphans = << >>]
            IN  /\ store' = write_file(store, del_keys(cache_data, keys), outcome)
                /\ IF outcome = "ok"
                   THEN scan_folder(folder, p, store', abandonment)
                   ELSE /\ abandonment = "runs_on"
                        /\ player' = abort(p)
                        /\ UNCHANGED <<scanner, orphans>>
                /\ UNCHANGED <<fs, prev>>

\* load_video without line 864: the path of the video before stays
load_video_KeepsPath(p, index) == [p EXCEPT !.current_index = index]

\* load_video, with the list's positions counted from 0 as the code does
load_video(p, index) ==
    [p EXCEPT !.current_index = index,
              !.current_video_path = p.video_list[index + 1]]

\* play_video loading the first video with no look at the list
play_video_NoGuard(p) == [p EXCEPT !.current_index = 0]

\* play_video: nothing to play, or the first video of the list
play_video(p) == IF p.video_list = << >> THEN p ELSE load_video(p, 0)

\* next_video, with load_folder_with_pending_settings when a setting is
\* pending (the last folder exists)
next_video(abandonment) ==
    /\ player.open /\ ~player.aborted
    /\ IF \/ player.pending_orientation # player.current_orientation
          \/ player.pending_max_length # player.current_max_length
       THEN load_folder(player.last_folder,
                        [player EXCEPT
                            !.current_orientation = player.pending_orientation,
                            !.current_max_length = player.pending_max_length],
                        store, abandonment)
       ELSE /\ abandonment = "runs_on"
            /\ player.video_list # << >>
            /\ player' = load_video(player,
                             (player.current_index + 1) % Len(player.video_list))
            /\ UNCHANGED <<scanner, orphans>>
    /\ UNCHANGED <<fs, store, prev>>

\* on_scan_complete(videos) and play_video; what the window remembers of the
\* reload that started the scan is dropped
on_scan_complete(p, videos, shuffled) ==
    play_video([p EXCEPT !.video_list = shuffled,
                         !.removed = EmptyCache,
                         !.reload_alone = FALSE])

\* the scanned signal of self.scanner reaches the window
OnScanComplete ==
    /\ player.open /\ ~player.aborted
    /\ Pending(scanner)
    /\ \E shuffled \in Shuffles(scanner.scanned[1]) :
          player' = on_scan_complete(player, scanner.scanned[1], shuffled)
    /\ scanner' = IdleScanner
    /\ UNCHANGED <<fs, store, prev, orphans>>

\* the scanned signal of a thread that self.scanner no longer names reaches
\* the window: it is connected to the same slot
OnOrphanComplete(i) ==
    /\ player.open /\ ~player.aborted
    /\ i \in 1..Len(orphans)
    /\ Pending(orphans[i])
    /\ \E shuffled \in Shuffles(orphans[i].scanned[1]) :
          player' = on_scan_complete(player, orphans[i].scanned[1], shuffled)
    /\ orphans' = SubSeq(orphans, 1, i - 1) \o SubSeq(orphans, i + 1, Len(orphans))
    /\ UNCHANGED <<fs, store, scanner, prev>>

\* a step of the thread of self.scanner; an exception out of run() ends the
\* process
ScannerStep(outcome) ==
    /\ player.open /\ ~player.aborted
    /\ Active(scanner)
    /\ scanner.pc # "save" => outcome = "ok"
    /\ LET r == thread_step(scanner, fs, store, outcome)
       IN  /\ scanner' = r.s
           /\ store' = r.doc
           /\ player' = IF r.s.pc = "crashed" THEN abort(player) ELSE player
    /\ UNCHANGED <<fs, prev, orphans>>

\* a step of a thread that self.scanner no longer names
OrphanStep(i, outcome) ==
    /\ player.open /\ ~player.aborted
    /\ i \in 1..Len(orphans)
    /\ Active(orphans[i])
    /\ orphans[i].pc # "save" => outcome = "ok"
    /\ LET r == thread_step(orphans[i], fs, store, outcome)
       IN  /\ orphans' = [orphans EXCEPT ![i] = r.s]
           /\ store' = r.doc
           /\ player' = IF r.s.pc = "crashed" THEN abort(player) ELSE player
    /\ UNCHANGED <<fs, prev, scanner>>

\* previous_video
previous_video ==
    /\ player.open /\ ~player.aborted
    /\ player.video_list # << >>
    /\ player' = load_video(player,
                     (player.current_index - 1) % Len(player.video_list))
    /\ UNCHANGED <<fs, store, scanner, prev, orphans>>

\* media_finished(EndOfMedia) of the video that was loaded: with the loop
\* button on the position is set back, else next_video runs
media_finished(loop_enabled, abandonment) ==
    /\ player.open /\ ~player.aborted
    /\ player.current_video_path # None
    /\ IF loop_enabled
       THEN abandonment = "runs_on" /\ UNCHANGED vars
       ELSE next_video(abandonment)

\* what is typed into the max-length field; str.isdigit() and int() of it
Texts == {"10", "0", "abc", "no limit", "NoLimit", "-10", "1.5", ""}

isdigit(text) == text \in {"10", "0"}

int(text) ==
    CASE text = "10"  -> [raised |-> FALSE, value |-> 10]
      [] text = "0"   -> [raised |-> FALSE, value |-> 0]
      [] text = "-10" -> [raised |-> FALSE, value |-> -10]
      [] OTHER        -> [raised |-> TRUE, value |-> 0]

\* max(0, x)
max0(x) == IF x > 0 THEN x ELSE 0

\* set_max_length without the max(0, .)
set_max_length_Unclamped(p, value) ==
    IF value.raised THEN p ELSE [p EXCEPT !.pending_max_length = value.value]

\* set_max_length(value), value being int(value) as far as it is defined
set_max_length(p, value) ==
    IF value.raised THEN p ELSE [p EXCEPT !.pending_max_length = max0(value.value)]

\* change_max_length(direction): the +/- buttons, pressed or held
change_max_length(direction) ==
    /\ player.open /\ ~player.aborted
    /\ LET new_value == player.pending_max_length + (10 * direction)
       IN  /\ max0(new_value) \in MaxLengths
           /\ player' = set_max_length(player, [raised |-> FALSE, value |-> new_value])
    /\ UNCHANGED <<fs, store, scanner, prev, orphans>>

\* manual_max_length_changed(text)
manual_max_length_changed(text) ==
    /\ player.open /\ ~player.aborted
    /\ player' = IF isdigit(text) THEN set_max_length(player, int(text))
                 ELSE IF lower(text) \in {"no limit", "nolimit"}
                 THEN set_max_length(player, [raised |-> FALSE, value |-> 0])
                 ELSE player
    /\ UNCHANGED <<fs, store, scanner, prev, orphans>>

\* the dropdown's entry taken as the filter in force at once
on_orientation_changed_Immediate(text) ==
    /\ player.open /\ ~player.aborted
    /\ text # player.pending_orientation
    /\ player' = [player EXCEPT !.pending_orientation = text,
                                !.current_orientation = text]
    /\ UNCHANGED <<fs, store, scanner, prev, orphans>>

\* on_orientation_changed(text): the dropdown shows another entry
on_orientation_changed(text) ==
    /\ player.open /\ ~player.aborted
    /\ text # player.pending_orientation
    /\ player' = [player EXCEPT !.pending_orientation = text]
    /\ UNCHANGED <<fs, store, scanner, prev, orphans>>

\* the window with its controls, the handlers running at any time beside
\* the threads, whose writes of the cache file succeed
ControlsNext ==
    \/ \E folder \in {Sibling, Empty}, a \in Abandonments : SelectFolder(folder, a)
    \/ \E text \in Orientations : on_orientation_changed(text)
    \/ \E direction \in {1, -1} : change_max_length(direction)
    \/ \E text \in Texts : manual_max_length_changed(text)
    \/ \E a \in Abandonments : next_video(a)
    \/ OnScanComplete
    \/ \E i \in 1..MaxOrphans : OnOrphanComplete(i)
    \/ ScannerStep("ok")
    \/ \E i \in 1..MaxOrphans : OrphanStep(i, "ok")

\* a folder with a vertical file of 10 s and a horizontal file of 40 s
TypicalFiles ==
    [p \in VideoPaths |->
        [readable |-> TRUE, mtime |-> 1,
         media |-> IF p.name[1] = "a"
                   THEN [ffprobe |-> "ok", duration |-> 10, w |-> 1, h |-> 2]
                   ELSE [ffprobe |-> "ok", duration |-> 40, w |-> 2, h |-> 1]]]

PlayerInit == PlayerStart({TypicalFiles @@ SiblingFiles}, {NoFile})

\* the window with its handlers running at any time, beside the threads
PlayerNext ==
    \/ \E folder \in {Folder, Sibling}, a \in Abandonments : SelectFolder(folder, a)
    \/ \E outcome \in WriteOutcomes, a \in Abandonments : ReloadCurrentFolder(outcome, a)
    \/ \E a \in Abandonments : next_video(a)
    \/ OnScanComplete
    \/ \E i \in 1..MaxOrphans : OnOrphanComplete(i)
    \/ \E outcome \in WriteOutcomes : ScannerStep(outcome)
    \/ \E i \in 1..MaxOrphans, outcome \in WriteOutcomes : OrphanStep(i, outcome)

PlayerSpec == PlayerInit /\ [][PlayerNext]_vars

\* the window opened on the second folder, of one file
ControlsInit == PlayerStartIn(Sibling, {TypicalFiles @@ SiblingFiles}, {NoFile})

ControlsSpec == ControlsInit /\ [][ControlsNext]_vars

\* the window used with no scan in flight, on every folder and with its
\* controls and playback buttons: a handler that starts a scan runs when the
\* scan before it has been delivered
NoPending ==
    /\ player.pending_orientation = player.current_orientation
    /\ player.pending_max_length = player.current_max_length

BrowseNext ==
    \/ \E folder \in {Folder, Sibling, Empty, Docs, Missing} :
          scanner.pc = "idle" /\ SelectFolder(folder, "runs_on")
    \/ \E outcome \in WriteOutcomes :
          scanner.pc = "idle" /\ ReloadCurrentFolder(outcome, "runs_on")
    \/ \E text \in Orientations : on_orientation_changed(text)
    \/ \E direction \in {1, -1} : change_max_length(direction)
    \/ \E text \in Texts : manual_max_length_changed(text)
    \/ (scanner.pc = "idle" \/ NoPending) /\ next_video("runs_on")
    \/ previous_video
    \/ \E loop_enabled \in BOOLEAN :
          (scanner.pc = "idle" \/ NoPending) /\ media_finished(loop_enabled, "runs_on")
    \/ OnScanComplete
    \/ \E outcome \in WriteOutcomes : ScannerStep(outcome)

BrowseSpec == PlayerInit /\ [][BrowseNext]_vars

ReloadInit ==
    PlayerStart({ f @@ SiblingFiles : f \in FolderFiles }, {NoFile, LegacyStore})

\* the window used with no scan in flight: a handler that starts a scan runs
\* when the scan before it has been delivered, and files change then
ReloadNext ==
    \/ \E folder \in {Folder, Sibling} :
          scanner.pc = "idle" /\ SelectFolder(folder, "runs_on")
    \/ \E outcome \in WriteOutcomes :
          scanner.pc = "idle" /\ ReloadCurrentFolder(outcome, "runs_on")
    \/ OnScanComplete
    \/ \E outcome \in WriteOutcomes : ScannerStep(outcome)
    \/ \E p \in VideoPaths, st \in FileStates :
          /\ player.open /\ ~player.aborted
          /\ Touch(p, st)
          /\ UNCHANGED <<prev, orphans, player>>

ReloadSpec == ReloadInit /\ [][ReloadNext]_vars

(***************************************************************************)
(* Vocabulary of the properties                                            *)
(***************************************************************************)
InSeq(x, seq) == \E i \in 1..Len(seq) : seq[i] = x

PathAt(folder, i) == normalize_path(os_walk(folder)[i].root, os_walk(folder)[i].file)

\* the video files whose loop body has run to its end
Processed(s) ==
    { PathAt(s.folder, i) :
        i \in { j \in 1..Len(os_walk(s.folder)) :
                  /\ is_video(os_walk(s.folder)[j].file)
                  /\ \/ j < s.pos
                     \/ j = s.pos /\ s.pc \in {"walk", "save", "emit", "done"} } }

\* the scan has a thread that has started
Running(s) == s.pc \in {"walk", "process", "save", "emit", "done", "crashed"}

\* the cache as loaded holds an entry for p whose mtime is the file's
FreshEntry(s, p) ==
    /\ p \in DOMAIN s.loaded
    /\ "mtime" \in DOMAIN s.loaded[p]
    /\ fs[p].readable
    /\ s.loaded[p]["mtime"] = fs[p].mtime

\* the cache as loaded holds an entry for p with another mtime than the file's
StaleEntry(s, p) ==
    /\ p \in DOMAIN s.loaded
    /\ "mtime" \in DOMAIN s.loaded[p]
    /\ fs[p].readable
    /\ s.loaded[p]["mtime"] # fs[p].mtime

\* what probing the file now answers
ProbeResult(p) ==
    [duration |-> get_video_length(fs[p].media).value,
     orientation |-> detect_orientation(fs[p].media),
     mtime |-> fs[p].mtime]

\* C1 -- cache hit: in a scan with force_reload = false, a video file whose
\* loaded entry carries the file's current mtime is never handed to
\* get_video_length or detect_orientation, its in-memory entry stays the
\* loaded one, and so does the entry a successful write persists.
C1_CacheHitShortCircuit ==
    (Running(scanner) /\ ~scanner.force_reload) =>
        \A p \in VideoPaths :
            FreshEntry(scanner, p) =>
                /\ ~InSeq(p, scanner.len_calls)
                /\ ~InSeq(p, scanner.ori_calls)
                /\ p \in DOMAIN scanner.media_info_cache
                /\ scanner.media_info_cache[p] = scanner.loaded[p]
                /\ scanner.write = "ok" => store.obj[p] = scanner.loaded[p]

\* a completed scan that served one file from the cache and probed another
C1_Witness ==
    /\ scanner.pc = "done"
    /\ ~scanner.force_reload
    /\ \E p \in Processed(scanner) : FreshEntry(scanner, p)
    /\ scanner.len_calls # << >>

\* C2 as stated -- at the end of the scan the in-memory and the persisted
\* entry of every file that was stale carry the file's mtime and the fresh
\* probe result.
C2_StalePersisted ==
    scanner.pc = "done" =>
        \A p \in VideoPaths :
            StaleEntry(scanner, p) =>
                /\ InSeq(p, scanner.len_calls)
                /\ InSeq(p, scanner.ori_calls)
                /\ scanner.media_info_cache[p] = ProbeResult(p)
                /\ store.valid
                /\ p \in DOMAIN store.obj
                /\ store.obj[p] = ProbeResult(p)

\* C2 amended -- a stale file is probed when the scan processes it and its
\* in-memory entry carries the file's mtime and the fresh probe result from
\* then on; the persisted entry does too once the scan has completed,
\* provided the write of the cache file succeeded.
C2_Staleness ==
    \A p \in Processed(scanner) :
        StaleEntry(scanner, p) =>
            /\ InSeq(p, scanner.len_calls)
            /\ InSeq(p, scanner.ori_calls)
            /\ scanner.media_info_cache[p] = ProbeResult(p)
            /\ (scanner.pc \in {"emit", "done"} /\ scanner.write = "ok") =>
                  /\ store.valid
                  /\ p \in DOMAIN store.obj
                  /\ store.obj[p] = ProbeResult(p)

\* a completed scan, written, of a folder with a stale entry
C2_Witness ==
    /\ scanner.pc = "done"
    /\ scanner.write = "ok"
    /\ ~scanner.force_reload
    /\ \E p \in Processed(scanner) : StaleEntry(scanner, p)

\* C3 -- force reload: a scan with force_reload = true hands every video
\* file it processes to both probes and overwrites its entry with the
\* result, whatever the loaded cache held; a completed scan has processed
\* every video file of the folder.
C3_ForceReload ==
    scanner.force_reload =>
        /\ \A p \in Processed(scanner) :
              /\ InSeq(p, scanner.len_calls)
              /\ InSeq(p, scanner.ori_calls)
              /\ scanner.media_info_cache[p] = ProbeResult(p)
        /\ scanner.pc \in {"save", "emit", "done"} => Processed(scanner) = VideoPaths

\* a completed forced scan over a fresh entry, a stale entry or no entry
C3_Witness ==
    /\ scanner.pc = "done"
    /\ scanner.force_reload
    /\ \E p \in VideoPaths : FreshEntry(scanner, p)
    /\ \E p \in VideoPaths : p \notin DOMAIN scanner.loaded

\* the scanner's thread has ended, by returning from run() or by an
\* exception that left it
Ended(s) == s.pc \in {"done", "crashed"}

\* C4 as stated -- a scan that was started ends with its completion event
\* emitted exactly once, after all of its progress events.
C4_ScanCompletes ==
    /\ Len(scanner.scanned) <= 1
    /\ Ended(scanner) =>
          /\ Len(scanner.scanned) = 1
          /\ Len(scanner.progress) = scanner.total_videos

\* C5 -- progress: the k-th progress event of a scan is (k, total_videos),
\* there are never more than total_videos of them, and a scan that has left
\* its loop has emitted exactly total_videos, so that (total, total) is the
\* last one and occurs once.
C5_ProgressMonotone ==
    Running(scanner) =>
        /\ \A k \in 1..Len(scanner.progress) :
              scanner.progress[k] = <<k, scanner.total_videos>>
        /\ Len(scanner.progress) <= scanner.total_videos
        /\ scanner.pc \in {"save", "emit", "done"} =>
              Len(scanner.progress) = scanner.total_videos

\* a completed scan that reported both video files
C5_Witness ==
    /\ scanner.pc = "done"
    /\ scanner.progress = << <<1, 2>>, <<2, 2>> >>

\* C6 as stated -- when the progress event with count k has been emitted,
\* the k-th video file has been fully processed.
C6_ProgressAfterProcessing ==
    Cardinality(Processed(scanner)) >= Len(scanner.progress)

\* C7 as stated -- a file whose frame dimensions cannot be read (0 by 0)
\* gets the orientation "Both" when probed, and is in no result of a scan
\* filtered by "Vertical" or "Horizontal".
C7_UnreadableIsBoth ==
    \A p \in Processed(scanner) :
        (InSeq(p, scanner.ori_calls) /\ fs[p].media.w = 0 /\ fs[p].media.h = 0) =>
            /\ scanner.media_info_cache[p]["orientation"] = "Both"
            /\ scanner.orientation # "Both" => ~InSeq(p, scanner.videos)

\* C8 as stated -- constructing a scanner over a cache file that is absent
\* or that json.load rejects gives an empty in-memory cache and a scanner
\* that can be started.
C8_LoadNeverFails ==
    (scanner.pc \in {"ready", "init_failed"} /\ (~store.exists \/ ~store.valid)) =>
        /\ scanner.pc = "ready"
        /\ scanner.media_info_cache = EmptyCache

\* the entry the loop body works with for p, and whether p passes the filters
ExpectedInfo(s, p) ==
    IF ~s.force_reload /\ FreshEntry(s, p) THEN s.loaded[p] ELSE ProbeResult(p)

Passes(s, info) ==
    /\ s.orientation = "Both" \/ info["orientation"] = s.orientation
    /\ s.max_length = 0 \/ info["duration"] <= s.max_length

\* the video files of the walk up to position n that pass the filters, in
\* walk order
RECURSIVE ExpectedVideos(_, _)
ExpectedVideos(s, n) ==
    IF n = 0 THEN << >>
    ELSE LET rest == ExpectedVideos(s, n - 1)
             p == PathAt(s.folder, n)
         IN  IF is_video(os_walk(s.folder)[n].file) /\ Passes(s, ExpectedInfo(s, p))
             THEN Append(rest, p)
             ELSE rest

\* C9 -- a failed write of the cache file is swallowed: the scan goes on to
\* emit its completion event, once, and the list it carries is the list of
\* the files that pass the filters, which no outcome of the write enters.
C9_PersistFailureSwallowed ==
    scanner.write \in {"open_failed", "dump_failed"} =>
        /\ scanner.pc \in {"emit", "done"}
        /\ scanner.pc = "emit" => scanner.scanned = << >>
        /\ scanner.pc = "done" =>
              scanner.scanned = <<ExpectedVideos(scanner, Len(os_walk(scanner.folder)))>>

\* a completed scan whose write failed and whose result is not empty
C9_Witness ==
    /\ scanner.pc = "done"
    /\ scanner.write = "dump_failed"
    /\ scanner.scanned # << << >> >>

\* C10 -- a failed duration probe does not abort the scan: the file's entry
\* gets the too-long value and its loop body runs to its end, no scan ends
\* by an exception out of get_video_length, and a scan that leaves the loop
\* has visited and reported every video file and goes on to emit its
\* completion event.
C10_ProbeFailureContinues ==
    /\ scanner.crash # "get_video_length"
    /\ \A p \in VideoPaths :
          (InSeq(p, scanner.len_calls) /\ fs[p].media.ffprobe = "fail") =>
              /\ p \in Processed(scanner)
              /\ scanner.media_info_cache[p]["duration"] = TooLong
              /\ scanner.pc \in {"save", "emit", "done"} =>
                    /\ Processed(scanner) = VideoPaths
                    /\ Len(scanner.progress) = Cardinality(VideoPaths)
              /\ scanner.pc = "done" => Len(scanner.scanned) = 1

\* a completed scan whose first file failed the duration probe
C10_Witness ==
    /\ scanner.pc = "done"
    /\ Len(scanner.len_calls) = 2
    /\ fs[scanner.len_calls[1]].media.ffprobe = "fail"
    /\ Len(scanner.progress) = 2
    /\ Len(scanner.scanned) = 1

\* the two tests of the filter, each on its own, on an in-memory entry
OrientationPasses(s, info) ==
    s.orientation = "Both" \/ info["orientation"] = s.orientation

LengthPasses(s, info) ==
    s.max_length = 0 \/ info["duration"] <= s.max_length

\* C11 -- orientation filter: under the filter "Vertical" or "Horizontal" a
\* processed file is in the list only if its entry's orientation is the
\* filter's, and it is in the list if its entry's orientation is the filter's
\* and it passes the length filter; under "Both" every processed file that
\* passes the length filter is in the list.
C11_OrientationFilter ==
    \A p \in Processed(scanner) :
        LET info == scanner.media_info_cache[p]
        IN  /\ scanner.orientation # "Both" =>
                  /\ InSeq(p, scanner.videos) =>
                        info["orientation"] = scanner.orientation
                  /\ (info["orientation"] = scanner.orientation
                        /\ LengthPasses(scanner, info)) => InSeq(p, scanner.videos)
            /\ scanner.orientation = "Both" =>
                  (LengthPasses(scanner, info) => InSeq(p, scanner.videos))

\* a completed scan filtered by "Vertical" that kept a vertical file and
\* dropped a horizontal one of the same folder
C11_Witness ==
    /\ scanner.pc = "done"
    /\ scanner.orientation = "Vertical"
    /\ Len(scanner.videos) = 1
    /\ \E p \in Processed(scanner) :
          /\ ~InSeq(p, scanner.videos)
          /\ scanner.media_info_cache[p]["orientation"] = "Horizontal"
          /\ LengthPasses(scanner, scanner.media_info_cache[p])

\* C12 -- length filter: under max_length = m > 0 a processed file whose
\* entry's duration is greater than m is not in the list, and one whose
\* duration is at most m (m itself included) is in the list when it passes
\* the orientation filter; under max_length = 0 every processed file that
\* passes the orientation filter is in the list.
C12_LengthFilter ==
    \A p \in Processed(scanner) :
        LET info == scanner.media_info_cache[p]
        IN  /\ scanner.max_length > 0 =>
                  /\ info["duration"] > scanner.max_length =>
                        ~InSeq(p, scanner.videos)
                  /\ (info["duration"] <= scanner.max_length
                        /\ OrientationPasses(scanner, info)) => InSeq(p, scanner.videos)
            /\ scanner.max_length = 0 =>
                  (OrientationPasses(scanner, info) => InSeq(p, scanner.videos))

\* a completed scan with a limit that kept a file of exactly that duration
\* and dropped a longer one
C12_Witness ==
    /\ scanner.pc = "done"
    /\ scanner.max_length > 0
    /\ \E p, q \in Processed(scanner) :
          /\ scanner.media_info_cache[p]["duration"] = scanner.max_length
          /\ InSeq(p, scanner.videos)
          /\ scanner.media_info_cache[q]["duration"] > scanner.max_length
          /\ OrientationPasses(scanner, scanner.media_info_cache[q])
          /\ ~InSeq(q, scanner.videos)

\* C13 -- the list: at every point of a scan the list is the sequence, in
\* walk order, of the normalized paths of the video files processed so far
\* that pass both filters, no path occurs in it twice, and the completion
\* event carries that sequence for the whole walk.
C13_ResultIsFilteredWalk ==
    /\ scanner.pc \in {"walk", "save", "emit", "done"} =>
          scanner.videos = ExpectedVideos(scanner, scanner.pos)
    /\ scanner.pc = "process" =>
          scanner.videos = ExpectedVideos(scanner, scanner.pos - 1)
    /\ \A i, j \in 1..Len(scanner.videos) :
          scanner.videos[i] = scanner.videos[j] => i = j
    /\ scanner.pc = "done" =>
          scanner.scanned = <<ExpectedVideos(scanner, Len(os_walk(scanner.folder)))>>

\* a completed scan of the folder (a vertical file of 10 s, a text file and
\* a horizontal file of 40 s) whose list holds both video files, the one
\* walked first in front
C13_Witness ==
    /\ scanner.pc = "done"
    /\ scanner.progress = << <<1, 2>>, <<2, 2>> >>
    /\ scanner.scanned = << <<PathAt(Folder, 1), PathAt(Folder, 3)>> >>
    /\ fs[PathAt(Folder, 1)].media.duration = 10
    /\ fs[PathAt(Folder, 3)].media.duration = 40

\* the step of a scan that leaves the write of lines 106-110 behind it
SaveStep == scanner.pc = "save" /\ scanner'.pc = "emit"

\* what C16 asks of every step
C16_Step ==
    /\ store' # store => SaveStep
    /\ SaveStep =>
          /\ scanner.write = "none"
          /\ scanner'.write # "none"
          /\ Processed(scanner) = VideoPaths
          /\ scanner'.write = "ok" => store' = json_dump(scanner.media_info_cache)
          /\ scanner'.write = "open_failed" => store' = store
    /\ scanner'.write # scanner.write => SaveStep \/ scanner'.write = "none"
    /\ (scanner'.scanned # scanner.scanned /\ scanner'.scanned # << >>) =>
          /\ scanner.write # "none"
          /\ scanner'.write = scanner.write

\* C16 -- one write per scan: the cache file changes in no step of a scan but
\* the one after the loop, that step is taken once, with every video file of
\* the folder processed, and writes the whole in-memory mapping (or fails),
\* and the completion event is emitted only after it.
C16_PersistedOnce == [][C16_Step]_vars

\* a completed scan whose one write replaced the file by the in-memory
\* mapping, which is no longer the mapping that was loaded
C16_Witness ==
    /\ scanner.pc = "done"
    /\ scanner.write = "ok"
    /\ Len(scanner.progress) = 2
    /\ store = json_dump(scanner.media_info_cache)
    /\ scanner.media_info_cache # scanner.loaded

\* C19 -- no filter: under "Both" and max_length = 0 every processed file is
\* in the list, whatever its entry says, and the list a completed scan emits
\* holds every video file of the folder.
C19_Unfiltered ==
    (scanner.orientation = "Both" /\ scanner.max_length = 0) =>
        /\ \A p \in Processed(scanner) : InSeq(p, scanner.videos)
        /\ scanner.pc = "done" =>
              /\ Len(scanner.scanned) = 1
              /\ \A p \in VideoPaths : InSeq(p, scanner.scanned[1])

\* a completed unfiltered scan whose list holds a file that failed the
\* duration probe and whose frame size could not be read
C19_Witness ==
    /\ scanner.pc = "done"
    /\ scanner.orientation = "Both"
    /\ scanner.max_length = 0
    /\ \E p \in VideoPaths :
          /\ InSeq(p, scanner.scanned[1])
          /\ InSeq(p, scanner.len_calls)
          /\ scanner.media_info_cache[p]["duration"] = TooLong
          /\ fs[p].media.w = 0
          /\ fs[p].media.h = 0

\* C20 as stated -- under every max_length > 0 a processed file whose entry
\* carries the too-long value is not in the list.
C20_TooLongExcluded ==
    \A p \in Processed(scanner) :
        (scanner.max_length > 0
           /\ scanner.media_info_cache[p]["duration"] = TooLong) =>
            ~InSeq(p, scanner.videos)

\* C15 as stated -- of two consecutive scans of the unchanged folder under
\* the same request (not a forced one), the second emits the list of the
\* first, probes no file, and leaves the cache file as the first left it.
C15_Idempotent ==
    (scanner.pc = "done" /\ prev.valid /\ ~scanner.force_reload) =>
        /\ scanner.scanned = <<prev.videos>>
        /\ scanner.len_calls = << >>
        /\ scanner.ori_calls = << >>
        /\ store = prev.doc

\* C15 -- of two consecutive completed scans of the unchanged folder under
\* the same request, the second emits the list of the first; if the first
\* one's write succeeded and the request is not a forced one the second
\* probes no file; and if the first one's write succeeded and the second
\* one's did not fail in json.dump, the cache file is as the first left it.
C15_IdempotentWhenWritten ==
    (scanner.pc = "done" /\ prev.valid) =>
        /\ scanner.folder = prev.folder
        /\ scanner.orientation = prev.orientation
        /\ scanner.max_length = prev.max_length
        /\ scanner.scanned = <<prev.videos>>
        /\ (prev.write = "ok" /\ ~scanner.force_reload) =>
              /\ scanner.len_calls = << >>
              /\ scanner.ori_calls = << >>
        /\ (prev.write = "ok" /\ scanner.write # "dump_failed") =>
              store = prev.doc

\* a second scan that has completed after a first one that probed both
\* files and wrote the cache: same non-empty list, no probe, same file
C15_Witness ==
    /\ scanner.pc = "done"
    /\ prev.valid
    /\ prev.write = "ok"
    /\ scanner.write = "ok"
    /\ ~scanner.force_reload
    /\ prev.videos # << >>
    /\ scanner.scanned = <<prev.videos>>
    /\ scanner.len_calls = << >>
    /\ Len(scanner.progress) = 2
    /\ store = prev.doc

\* C14 as stated -- at most one scan is active: no thread that self.scanner
\* no longer names is still running while the thread of self.scanner runs.
C14_OneActiveScan ==
    ~(Active(scanner) /\ \E i \in 1..Len(orphans) : Active(orphans[i]))

\* the segments of the folder are the first segments of the key's directory
InSubtree(k, folder) ==
    /\ Len(normpath(folder)) <= Len(k.dir)
    /\ SubSeq(k.dir, 1, Len(normpath(folder))) = normpath(folder)

\* C17 as stated -- the keys a reload removes are those, and only those, of
\* the files inside the current folder's subtree.
C17_ReloadRemovesSubtreeOnly ==
    player.open =>
        \A k \in DOMAIN player.removed : InSubtree(k, player.current_folder)

\* the normalized paths of the video files a walk of the folder visits
VideoPathsOf(folder) ==
    { PathAt(folder, i) :
        i \in { j \in 1..Len(os_walk(folder)) : is_video(os_walk(folder)[j].file) } }

\* C18 as stated -- when the scan that a reload started, with no other scan
\* in flight, has completed, the cache file holds for every video file of the
\* folder the result of probing it now.
C18_ReloadPersistsFresh ==
    (player.open /\ player.reload_alone /\ scanner.pc = "done") =>
        /\ store.valid
        /\ \A p \in VideoPathsOf(scanner.folder) :
              /\ p \in DOMAIN store.obj
              /\ store.obj[p] = ProbeResult(p)

\* C18 -- the scan that a reload started, with no other scan in flight, is a
\* scan of the current folder that hands every file it processes to both
\* probes and holds the result in memory; when it has left the loop it has
\* processed every video file of the folder; and when its write has
\* succeeded the cache file holds for each of them the result of probing it
\* now.
C18_ReloadReprobes ==
    (player.open /\ player.reload_alone /\ scanner.pc # "idle") =>
        /\ scanner.folder = normpath(player.current_folder)
        /\ \A p \in Processed(scanner) :
              /\ InSeq(p, scanner.len_calls)
              /\ InSeq(p, scanner.ori_calls)
              /\ scanner.media_info_cache[p] = ProbeResult(p)
        /\ scanner.pc \in {"save", "emit", "done"} =>
              Processed(scanner) = VideoPathsOf(scanner.folder)
        /\ scanner.write = "ok" =>
              \A p \in VideoPathsOf(scanner.folder) :
                  /\ p \in DOMAIN store.obj
                  /\ store.obj[p] = ProbeResult(p)

\* a completed scan started by a reload that removed an entry with the
\* file's mtime and an entry with another mtime, probed both files and wrote
\* the cache
C18_Witness ==
    /\ player.open
    /\ player.reload_alone
    /\ scanner.pc = "done"
    /\ scanner.write = "ok"
    /\ Len(scanner.len_calls) = 2
    /\ \E p, q \in VideoPaths :
          /\ p \in DOMAIN player.removed
          /\ q \in DOMAIN player.removed
          /\ player.removed[p]["mtime"] = fs[p].mtime
          /\ player.removed[q]["mtime"] # fs[q].mtime
          /\ store.obj[p] = ProbeResult(p)
          /\ store.obj[q] = ProbeResult(q)

(***************************************************************************)
(* C23: the files a scan counts and visits                                 *)
(***************************************************************************)
\* the spellings on disk that end, in any case, with one of the four
\* extensions
Recognized == {".mp4", ".MP4", ".mkv", ".MKV", ".avi", ".mov"}

\* the positions in the walk of the files with such a name
MatchingAt(folder) ==
    { i \in 1..Len(os_walk(folder)) : os_walk(folder)[i].file[2] \in Recognized }

\* the paths of the files of the walk with any other name
OtherPaths(folder) ==
    { PathAt(folder, i) : i \in (1..Len(os_walk(folder))) \ MatchingAt(folder) }

\* C23 -- the total_count of every progress event is the number of files of
\* the walk whose name ends, in any case, with .mp4, .mkv, .avi or .mov;
\* the files visited are those files, in walk order; a file with another
\* extension is never probed, never cached, never counted and never in the
\* result.
C23_ExactlyVideoFiles ==
    Running(scanner) =>
        LET matching == MatchingAt(scanner.folder)
        IN  /\ scanner.total_videos = Cardinality(matching)
            /\ \A i \in 1..Len(scanner.progress) :
                  scanner.progress[i][2] = Cardinality(matching)
            /\ scanner.pos = 0 \/ scanner.pos \in matching
            /\ scanner.scanned_count =
                  Cardinality({ i \in matching : i <= scanner.pos })
            /\ scanner.pc \in {"save", "emit", "done"} =>
                  scanner.scanned_count = Cardinality(matching)
            /\ \A p \in OtherPaths(scanner.folder) :
                  /\ ~InSeq(p, scanner.len_calls)
                  /\ ~InSeq(p, scanner.ori_calls)
                  /\ ~InSeq(p, scanner.videos)
                  /\ p \in DOMAIN scanner.media_info_cache => p \in DOMAIN scanner.loaded
                  /\ (store.exists /\ store.valid /\ p \in DOMAIN store.obj) =>
                        p \in DOMAIN scanner.loaded

\* a completed scan of the tree with a.mp4, notes.txt and sub/b.MKV that
\* counted two files and probed both
C23_Witness ==
    /\ scanner.pc = "done"
    /\ scanner.total_videos = 2
    /\ Len(scanner.len_calls) = 2
    /\ Len(scanner.progress) = 2
    /\ OtherPaths(scanner.folder) # {}
    /\ \E i \in MatchingAt(scanner.folder) : os_walk(scanner.folder)[i].file[2] = ".MKV"

(***************************************************************************)
(* detect_orientation over the frame sizes: scans of a folder whose first  *)
(* file has any width and height up to MaxDim                              *)
(***************************************************************************)
MaxDim == 3

\* what the probes answer for a file of each frame size
FrameKinds ==
    { [ffprobe |-> "ok", duration |-> 10, w |-> w, h |-> h] : w, h \in 0..MaxDim }

ProbeInit ==
    /\ fs \in { [p \in VideoPaths |->
                   [readable |-> TRUE, mtime |-> 1,
                    media |-> IF p.name = <<"a", ".mp4">>
                              THEN m
                              ELSE [ffprobe |-> "ok", duration |-> 40, w |-> 2, h |-> 1]]]
                @@ SiblingFiles : m \in FrameKinds }
    /\ store = NoFile
    /\ scanner = IdleScanner
    /\ prev = NoPrev
    /\ orphans = << >>
    /\ player = NoPlayer

ProbeNext ==
    \/ \E o \in Orientations, m \in MaxLengths, fr \in BOOLEAN :
          StartScan(o, m, fr) /\ UNCHANGED <<prev, orphans, player>>
    \/ RunCount /\ UNCHANGED <<prev, orphans, player>>
    \/ RunVisit /\ UNCHANGED <<prev, orphans, player>>
    \/ RunProcess /\ UNCHANGED <<prev, orphans, player>>
    \/ \E outcome \in WriteOutcomes :
          RunSave(outcome) /\ UNCHANGED <<prev, orphans, player>>
    \/ RunEmit /\ UNCHANGED <<prev, orphans, player>>
    \/ Release /\ UNCHANGED <<prev, orphans, player>>

ProbeSpec == ProbeInit /\ [][ProbeNext]_vars

\* C24 -- for every frame width and height, not both zero, the orientation
\* detect_orientation answers is "Horizontal" exactly when width > height
\* and "Vertical" otherwise; a square frame is Vertical.
C24_DetectOrientation ==
    \A p \in VideoPaths :
        (/\ InSeq(p, scanner.ori_calls)
         /\ fs[p].media.w > 0 \/ fs[p].media.h > 0) =>
            scanner.media_info_cache[p]["orientation"] =
                IF fs[p].media.w > fs[p].media.h THEN "Horizontal" ELSE "Vertical"

\* a file with a square frame was probed and cached as Vertical
C24_Witness ==
    \E p \in VideoPaths :
        /\ InSeq(p, scanner.ori_calls)
        /\ fs[p].media.w = fs[p].media.h
        /\ fs[p].media.w > 0
        /\ scanner.media_info_cache[p]["orientation"] = "Vertical"

(***************************************************************************)
(* C21: a folder with no matching file                                     *)
(***************************************************************************)
NoVideos(folder) == MatchingAt(folder) = {}

\* a step that leaves the scan of a folder with no matching file in a state
\* with no progress event, no probe and no failure, and with the empty
\* sequence as the one completion event once the thread has ended; and a
\* step that delivers an empty result leaves the list empty and loads nothing
C21_Step ==
    /\ (Running(scanner') /\ NoVideos(scanner'.folder)) =>
          /\ scanner'.pc # "crashed"
          /\ scanner'.progress = << >>
          /\ scanner'.len_calls = << >>
          /\ scanner'.ori_calls = << >>
          /\ scanner'.scanned = IF scanner'.pc = "done" THEN << << >> >> ELSE << >>
    /\ (Pending(scanner) /\ scanner.scanned = << << >> >> /\ scanner'.pc = "idle") =>
          /\ player'.video_list = << >>
          /\ player'.current_index = player.current_index
          /\ player'.current_video_path = player.current_video_path
          /\ ~player'.aborted

\* C21 -- when the root folder is empty, holds no file with a recognized
\* extension, or does not exist, the scan emits no progress event and one
\* completion event with the empty sequence, and the player is left with an
\* empty video list and has loaded no video.
C21_EmptyResult == [][C21_Step]_vars

\* the empty result of the scan of the folder that holds notes.txt only has
\* been delivered: the list is empty, and the video loaded before is still
\* the current one
C21_Witness ==
    /\ player.open /\ ~player.aborted
    /\ player.current_folder = Docs
    /\ scanner.pc = "idle"
    /\ player.video_list = << >>
    /\ player.current_video_path \in VideoPaths

(***************************************************************************)
(* C22: the request of a running scan                                      *)
(***************************************************************************)
Request(s) == <<s.folder, s.orientation, s.max_length, s.force_reload>>

\* every thread that is running before a step is, after it, the thread
\* self.scanner names or one the window no longer names, with the request
\* it had
C22_Step ==
    /\ Active(scanner) =>
          \/ /\ scanner'.pc # "idle"
             /\ Request(scanner') = Request(scanner)
             /\ scanner'.pos >= scanner.pos
          \/ \E j \in 1..Len(orphans') : orphans'[j] = scanner
    /\ \A i \in 1..Len(orphans) :
          Active(orphans[i]) =>
              \E j \in 1..Len(orphans') :
                  /\ Request(orphans'[j]) = Request(orphans[i])
                  /\ orphans'[j].pos >= orphans[i].pos

\* C22 -- changing the orientation dropdown, the max-length control or the
\* current folder, or starting another scan, while a scan is running does
\* not change the folder, orientation filter, max length or force_reload
\* flag the running scan applies to the files it has not yet visited.
C22_RequestImmutable == [][C22_Step]_vars

\* a scan goes on after the dropdown and the max length were changed and
\* applied, the folder was changed and another scan was started: it is at a
\* file, with the request it was built with
C22_Witness ==
    /\ player.open /\ ~player.aborted
    /\ Len(orphans) = 1
    /\ orphans[1].pc = "process"
    /\ Active(scanner)
    /\ orphans[1].folder # player.current_folder
    /\ orphans[1].orientation # player.current_orientation
    /\ orphans[1].max_length # player.current_max_length
    /\ orphans[1].orientation # player.pending_orientation
    /\ orphans[1].max_length # player.pending_max_length

(***************************************************************************)
(* C25: the max length                                                     *)
(***************************************************************************)
\* the texts that are neither digits nor a spelling of "no limit"
InvalidTexts == {"abc", "-10", "1.5", ""}

C25_Step ==
    /\ player'.pending_max_length \in Nat
    /\ player'.current_max_length \in Nat
    /\ scanner'.max_length \in Nat
    /\ (player.pending_max_length = 0 /\ change_max_length(-1)) =>
          player'.pending_max_length = 0
    /\ \A text \in InvalidTexts :
          manual_max_length_changed(text) =>
              player'.pending_max_length = player.pending_max_length

\* C25 -- after any sequence of presses of the + and - buttons, auto-repeat
\* ticks and manual text entries, pending_max_length, current_max_length
\* and the max length passed to a scan are integers >= 0: decrementing at 0
\* stays at 0, and invalid input leaves pending_max_length unchanged.
C25_MaxLengthNonNegative == [][C25_Step]_vars

\* a scan runs with the limit of one + step, and the control has been
\* stepped back to 0
C25_Witness ==
    /\ player.open /\ ~player.aborted
    /\ Active(scanner)
    /\ scanner.max_length = 10
    /\ player.current_max_length = 10
    /\ player.pending_max_length = 0

(***************************************************************************)
(* C26: the list and the current request                                   *)
(***************************************************************************)
\* C26 as stated -- whenever video_list is non-empty, every path in it lies
\* under current_folder and passes the filter given by current_orientation
\* and current_max_length: a completion event of a scan started for an
\* earlier folder or filter never replaces the list of a later request.
C26_ListOfCurrentRequest ==
    (player.open /\ player.video_list # << >>) =>
        \A i \in 1..Len(player.video_list) :
            LET path == player.video_list[i]
            IN  /\ InSubtree(path, player.current_folder)
                /\ \/ player.current_orientation = "Both"
                   \/ ProbeResult(path)["orientation"] = player.current_orientation
                /\ \/ player.current_max_length = 0
                   \/ ProbeResult(path)["duration"] <= player.current_max_length

(***************************************************************************)
(* C27: the writes of concurrent scans                                     *)
(***************************************************************************)
\* the threads whose completion has not yet been delivered
Undelivered ==
    { s \in {scanner} \cup { orphans[i] : i \in 1..Len(orphans) } : Pending(s) }

\* C27 as stated -- once every started scan has completed, the cache file
\* holds, for each file probed by any of those scans, the entry of the
\* latest probe of that file, in every interleaving of scan construction,
\* reload and scan completion. Stated for the scans whose write succeeded
\* and whose completion is still to be delivered; the files do not change.
C27_NoLostUpdates ==
    (/\ player.open /\ ~player.aborted
     /\ ~Active(scanner)
     /\ \A i \in 1..Len(orphans) : ~Active(orphans[i])
     /\ \A s \in Undelivered : s.write = "ok") =>
        \A s \in Undelivered :
            \A i \in 1..Len(s.len_calls) :
                /\ store.exists /\ store.valid
                /\ s.len_calls[i] \in DOMAIN store.obj
                /\ store.obj[s.len_calls[i]] = ProbeResult(s.len_calls[i])

(***************************************************************************)
(* C28: the entries a scan leaves alone                                    *)
(***************************************************************************)
MatchingPaths(folder) == { PathAt(folder, i) : i \in MatchingAt(folder) }

\* C28 as stated -- when a scan has ended its loop and written the cache,
\* every entry of the file as it was before the scan is still in the file,
\* and is identical if its path is not a matching file visited by the scan.
C28_OtherEntriesPersisted ==
    (player.open /\ scanner.pc \in {"emit", "done"}) =>
        \A k \in DOMAIN scanner.loaded :
            /\ store.exists /\ store.valid
            /\ k \in DOMAIN store.obj
            /\ k \notin MatchingPaths(scanner.folder) => store.obj[k] = scanner.loaded[k]

\* C28 -- a scan only adds or overwrites entries of the files it visits: in
\* memory at every point of the scan, and in the file once the write has
\* succeeded, every entry of the cache as loaded is present, and identical
\* if its path is not a matching file of the scan; when the file could not be
\* opened for writing it is as it was.
C28_OtherEntriesKept ==
    (player.open /\ Running(scanner)) =>
        /\ \A k \in DOMAIN scanner.loaded :
              /\ k \in DOMAIN scanner.media_info_cache
              /\ k \notin MatchingPaths(scanner.folder) =>
                    scanner.media_info_cache[k] = scanner.loaded[k]
        /\ scanner.write = "ok" =>
              \A k \in DOMAIN scanner.loaded :
                  /\ k \in DOMAIN store.obj
                  /\ k \notin MatchingPaths(scanner.folder) =>
                        store.obj[k] = scanner.loaded[k]
        /\ scanner.write = "open_failed" =>
              IF store.exists THEN store.valid /\ store.obj = scanner.loaded
              ELSE scanner.loaded = EmptyCache

\* a completed scan that probed a file and wrote the cache, which held and
\* holds the entry of a file of another folder
C28_Witness ==
    /\ player.open
    /\ scanner.pc = "done"
    /\ scanner.write = "ok"
    /\ Len(scanner.len_calls) > 0
    /\ \E k \in DOMAIN scanner.loaded :
          /\ k \notin MatchingPaths(scanner.folder)
          /\ store.obj[k] = scanner.loaded[k]

(***************************************************************************)
(* C29: the cache and the filters                                          *)
(***************************************************************************)
\* run() from where the thread is to the end of its loop or to the
\* exception that ends it
RECURSIVE RunLoop(_, _)
RunLoop(s, files) ==
    IF s.pc = "ready" THEN RunLoop(run_count(s), files)
    ELSE IF s.pc = "walk" THEN RunLoop(run_visit(s), files)
    ELSE IF s.pc = "process" THEN RunLoop(run_process(s, files), files)
    ELSE s

\* the scan of the same folder, from the same cache and with the same
\* force_reload flag, under the other filters
OtherScans(s) ==
    { RunLoop([IdleScanner EXCEPT !.pc = "ready",
                                  !.folder = s.folder,
                                  !.force_reload = s.force_reload,
                                  !.media_info_cache = s.loaded,
                                  !.loaded = s.loaded,
                                  !.orientation = o,
                                  !.max_length = m], fs) :
        o \in Orientations, m \in MaxLengths }

\* C29 as stated -- two scans of the same folder state, started from the
\* same cache with the same force_reload flag and different filters, invoke
\* the probes on the same files and have the same mapping to persist.
C29_CacheIndependentOfFilters ==
    scanner.pc \in {"save", "emit", "done", "crashed"} =>
        \A other \in OtherScans(scanner) :
            /\ other.len_calls = scanner.len_calls
            /\ other.ori_calls = scanner.ori_calls
            /\ other.media_info_cache = scanner.media_info_cache
            /\ (other.pc = "crashed") = (scanner.pc = "crashed")

(***************************************************************************)
(* C30: the playback index                                                 *)
(***************************************************************************)
\* the elements of a sequence
Range(seq) == { seq[i] : i \in 1..Len(seq) }

C30_Step ==
    /\ player'.video_list # << >> =>
          /\ 0 <= player'.current_index
          /\ player'.current_index < Len(player'.video_list)
          /\ player'.current_video_path = player'.video_list[player'.current_index + 1]
    /\ (Pending(scanner) /\ scanner.scanned[1] # << >> /\ scanner'.pc = "idle") =>
          /\ player'.current_index = 0
          /\ player'.current_video_path = player'.video_list[1]
          /\ Len(player'.video_list) = Len(scanner.scanned[1])
          /\ Range(player'.video_list) = Range(scanner.scanned[1])

\* C30 -- after any sequence of scan completions, next_video,
\* previous_video and end-of-media events, whenever video_list is non-empty,
\* 0 <= current_index < len(video_list) and current_video_path is
\* video_list[current_index]; a completed scan with a non-empty result
\* restarts playback at index 0 of the shuffled list, which is a permutation
\* of the scan result.
C30_PlaybackIndex == [][C30_Step]_vars

\* the second video of a list of two is the current one
C30_Witness ==
    /\ player.open /\ ~player.aborted
    /\ Len(player.video_list) = 2
    /\ player.video_list[1] # player.video_list[2]
    /\ player.current_index = 1
    /\ player.current_video_path = player.video_list[2]

(***************************************************************************)
(* C31: the pending settings                                               *)
(***************************************************************************)
\* a step that changes a pending setting changes nothing else of the
\* window, the threads and the cache file; the filters in force change only
\* in a call of next_video with a setting pending, and that call, reached
\* directly or from media_finished, makes the pending settings the ones in
\* force, empties the list, leaves the playback index and the loaded video
\* as they were and, unless the constructor of the thread ends the process,
\* starts a scan of the last folder with them
C31_Step ==
    /\ (\/ player'.pending_orientation # player.pending_orientation
        \/ player'.pending_max_length # player.pending_max_length) =>
          /\ player' = [player EXCEPT
                           !.pending_orientation = player'.pending_orientation,
                           !.pending_max_length = player'.pending_max_length]
          /\ UNCHANGED <<fs, store, scanner, orphans>>
    /\ (\/ player'.current_orientation # player.current_orientation
        \/ player'.current_max_length # player.current_max_length) =>
          ~NoPending
    /\ (/\ ~NoPending
        /\ next_video("runs_on") \/ media_finished(FALSE, "runs_on")) =>
          /\ player'.current_orientation = player.pending_orientation
          /\ player'.current_max_length = player.pending_max_length
          /\ player'.pending_orientation = player.pending_orientation
          /\ player'.pending_max_length = player.pending_max_length
          /\ player'.video_list = << >>
          /\ player'.current_index = player.current_index
          /\ player'.current_video_path = player.current_video_path
          /\ player'.current_folder = player.last_folder
          /\ ~player'.aborted =>
                /\ scanner'.pc = "ready"
                /\ Request(scanner') = <<player.last_folder, player.pending_orientation,
                                         player.pending_max_length, FALSE>>

\* C31 -- changing the orientation dropdown or the max-length control
\* changes only pending_orientation / pending_max_length and leaves
\* current_orientation, current_max_length and video_list unchanged; when
\* next_video, directly or via end-of-media, runs with pending different
\* from current, current becomes equal to pending, video_list is cleared, a
\* rescan with the new current values starts, and the playback index is not
\* advanced by that call.
C31_PendingAtNextVideo == [][C31_Step]_vars

\* next_video has just applied the settings Horizontal and 10 s that were
\* pending: the scan with them is about to run, the list is empty and the
\* index is still that of the second video of the list before
C31_Witness ==
    /\ player.open /\ ~player.aborted
    /\ NoPending
    /\ player.current_orientation = "Horizontal"
    /\ player.current_max_length = 10
    /\ scanner.pc = "ready"
    /\ scanner.orientation = "Horizontal"
    /\ scanner.max_length = 10
    /\ player.video_list = << >>
    /\ player.current_index = 1

(***************************************************************************)
(* ClickOverlay: the click zones, the two single-shot timers, and the      *)
(* slots of the window its signals are connected to                        *)
(***************************************************************************)
single_delay_ms == 200

double_timeout_ms == 400

\* the time that passes in one step of the clock, in ms
TimeStep == 50

\* a timer that is not running; a running one holds the ms left
Stopped == -1

\* ClickOverlay.__init__
ClickOverlayInit ==
    [waiting_single |-> FALSE, waiting_double |-> FALSE,
     single_delay_timer |-> Stopped, double_timeout_timer |-> Stopped]

\* what has been emitted since the first click of the pair of middle clicks
\* under way, or of the last one: the clicks, the clickedMiddle and
\* doubleClickedMiddle events, the playback state before the first click and
\* the time from the first click to the second
NoPair ==
    [clicks |-> 0, clickedMiddle |-> 0, doubleClickedMiddle |-> 0,
     was_playing |-> FALSE, second_at |-> 0]

\* the window as far as the overlay's signals reach, with no video in the list
ClickWindows ==
    { [open |-> TRUE, aborted |-> FALSE, video_list |-> << >>,
       isPlaying |-> playing, isFullScreen |-> full, controls_isVisible |-> shown,
       click_overlay |-> ClickOverlayInit, pair |-> NoPair] :
        playing, full, shown \in BOOLEAN }

\* clickedMiddle.emit(): toggle_play_pause
emit_clickedMiddle(w) ==
    [w EXCEPT !.isPlaying = ~w.isPlaying,
              !.pair.clickedMiddle = w.pair.clickedMiddle + 1]

\* doubleClickedMiddle.emit(): toggle_fullscreen
emit_doubleClickedMiddle(w) ==
    [w EXCEPT !.isFullScreen = ~w.isFullScreen,
              !.pair.doubleClickedMiddle = w.pair.doubleClickedMiddle + 1]

\* lines 498-504: the first click of the middle zone
first_click(w) ==
    [w EXCEPT !.click_overlay.waiting_double = TRUE,
              !.click_overlay.waiting_single = TRUE,
              !.click_overlay.single_delay_timer = single_delay_ms,
              !.click_overlay.double_timeout_timer = double_timeout_ms,
              !.pair = [clicks |-> 1, clickedMiddle |-> 0, doubleClickedMiddle |-> 0,
                        was_playing |-> w.isPlaying, second_at |-> 0]]

\* the second click with lines 512-514 left out: no clickedMiddle for it
second_click_NoSingle(w) ==
    LET at == double_timeout_ms - w.click_overlay.double_timeout_timer
        w1 == [w EXCEPT !.pair.clicks = 2, !.pair.second_at = at]
        w2 == IF w.click_overlay.waiting_single
              THEN [w1 EXCEPT !.click_overlay.single_delay_timer = Stopped,
                              !.click_overlay.waiting_single = FALSE]
              ELSE w1
        w3 == emit_doubleClickedMiddle(w2)
    IN  [w3 EXCEPT !.click_overlay.waiting_double = FALSE,
                   !.click_overlay.double_timeout_timer = Stopped]

\* lines 507-522: the second click of the middle zone
second_click(w) ==
    LET at == double_timeout_ms - w.click_overlay.double_timeout_timer
        w1 == [w EXCEPT !.pair.clicks = 2, !.pair.second_at = at]
        w2 == IF w.click_overlay.waiting_single
              THEN [w1 EXCEPT !.click_overlay.single_delay_timer = Stopped,
                              !.click_overlay.waiting_single = FALSE]
              ELSE emit_clickedMiddle(w1)
        w3 == emit_doubleClickedMiddle(w2)
    IN  [w3 EXCEPT !.click_overlay.waiting_double = FALSE,
                   !.click_overlay.double_timeout_timer = Stopped]

Buttons == {"LeftButton", "RightButton"}

Zones == {"top", "bottom", "left", "right", "middle"}

\* mousePressEvent: a button other than the left one goes to the base
\* class; the top zone leaves full screen, the bottom zone shows or hides
\* the controls, the left and right zones call previous_video and
\* next_video, which return at the empty list
mousePressEvent(button, zone) ==
    /\ player.open /\ ~player.aborted
    /\ player' =
          IF button # "LeftButton" THEN player
          ELSE CASE zone = "top"    -> [player EXCEPT !.isFullScreen = FALSE]
                 [] zone = "bottom" -> [player EXCEPT !.controls_isVisible =
                                                          ~player.controls_isVisible]
                 [] zone = "left"   -> player
                 [] zone = "right"  -> player
                 [] zone = "middle" -> IF ~player.click_overlay.waiting_double
                                       THEN first_click(player)
                                       ELSE second_click(player)
    /\ UNCHANGED <<fs, store, scanner, prev, orphans>>

\* _emit_delayed_single: the single-shot timer of 200 ms is due
emit_delayed_single ==
    /\ player.open /\ ~player.aborted
    /\ player.click_overlay.single_delay_timer = 0
    /\ LET w == [player EXCEPT !.click_overlay.single_delay_timer = Stopped]
       IN  player' = IF w.click_overlay.waiting_single
                     THEN [emit_clickedMiddle(w) EXCEPT
                              !.click_overlay.waiting_single = FALSE]
                     ELSE w
    /\ UNCHANGED <<fs, store, scanner, prev, orphans>>

\* _reset_double_click: the single-shot timer of 400 ms is due
reset_double_click ==
    /\ player.open /\ ~player.aborted
    /\ player.click_overlay.double_timeout_timer = 0
    /\ player.click_overlay.single_delay_timer # 0
    /\ player' = [player EXCEPT !.click_overlay.double_timeout_timer = Stopped,
                                !.click_overlay.waiting_double = FALSE,
                                !.click_overlay.waiting_single = FALSE]
    /\ UNCHANGED <<fs, store, scanner, prev, orphans>>

\* the ms until the first running timer is due, at most one step of the clock
Elapse(o) ==
    LET left == { t \in {o.single_delay_timer, o.double_timeout_timer} : t # Stopped }
    IN  IF \E t \in left : t < TimeStep
        THEN CHOOSE t \in left : \A u \in left : t <= u
        ELSE TimeStep

\* time passes while a timer runs and none is due
Tick ==
    /\ player.open /\ ~player.aborted
    /\ LET o == player.click_overlay
           d == Elapse(o)
       IN  /\ o.single_delay_timer # Stopped \/ o.double_timeout_timer # Stopped
           /\ o.single_delay_timer # 0 /\ o.double_timeout_timer # 0
           /\ player' = [player EXCEPT
                 !.click_overlay.single_delay_timer =
                     IF o.single_delay_timer = Stopped THEN Stopped
                     ELSE o.single_delay_timer - d,
                 !.click_overlay.double_timeout_timer =
                     IF o.double_timeout_timer = Stopped THEN Stopped
                     ELSE o.double_timeout_timer - d]
    /\ UNCHANGED <<fs, store, scanner, prev, orphans>>

ClickInit ==
    /\ fs = TypicalFiles @@ SiblingFiles
    /\ store = NoFile
    /\ scanner = IdleScanner
    /\ prev = NoPrev
    /\ orphans = << >>
    /\ player \in ClickWindows

ClickNext ==
    \/ \E button \in Buttons, zone \in Zones : mousePressEvent(button, zone)
    \/ emit_delayed_single
    \/ reset_double_click
    \/ Tick

ClickSpec == ClickInit /\ [][ClickNext]_vars

\* C32 -- for two left clicks in the middle zone, the second arriving
\* before the 400 ms timer of the first fires, exactly one
\* doubleClickedMiddle is emitted and the number of clickedMiddle events of
\* the pair is even: 0 when the second click precedes the 200 ms timer, 2
\* when it follows it, so that play/pause ends as it started; a lone middle
\* click emits exactly one clickedMiddle and no doubleClickedMiddle; and
\* _waiting_single implies _waiting_double in every state.
C32_MiddleDoubleClick ==
    LET o == player.click_overlay
        pair == player.pair
    IN  /\ o.waiting_single => o.waiting_double
        /\ pair.clicks = 2 =>
              /\ ~o.waiting_double
              /\ pair.doubleClickedMiddle = 1
              /\ pair.clickedMiddle \in {0, 2}
              /\ pair.second_at < single_delay_ms => pair.clickedMiddle = 0
              /\ pair.second_at > single_delay_ms => pair.clickedMiddle = 2
              /\ player.isPlaying = pair.was_playing
        /\ (pair.clicks = 1 /\ ~o.waiting_double) =>
              /\ pair.clickedMiddle = 1
              /\ pair.doubleClickedMiddle = 0
        /\ (pair.clicks = 1 /\ o.waiting_double) =>
              /\ pair.clickedMiddle = IF o.waiting_single THEN 0 ELSE 1
              /\ pair.doubleClickedMiddle = 0

\* a pair whose second click came after the single-click timer had fired:
\* two clickedMiddle events, one doubleClickedMiddle, playing as before
C32_Witness ==
    /\ player.pair.clicks = 2
    /\ player.pair.second_at > single_delay_ms
    /\ player.pair.clickedMiddle = 2
    /\ player.pair.doubleClickedMiddle = 1
    /\ player.pair.was_playing
    /\ player.isPlaying
====
